---- MODULE Spec2Model ----
(***************************************************************************)
(* The stock research orchestrator of skills/research_stock.py: main()     *)
(* validates the ticker, sets up the work directory, validates the phase   *)
(* names and the API keys, runs the technical phase alone, the other data  *)
(* phases in a process pool, then report, deep and final one after the     *)
(* other, and returns an exit code.  run_phase() runs one phase script as  *)
(* a child process and records its outcome in the metadata it was given.   *)
(***************************************************************************)
EXTENDS Integers, Sequences, FiniteSets, TLC

(* ------------------------------ bounds -------------------------------- *)

\* longest --phases list the model draws
MaxPhases == 2

\* most child processes of one run that end abnormally: by a timeout, by
\* FileNotFoundError, by another exception, or with their worker
MaxFaults == 1

\* most phase scripts that exists() finds absent in one run
MaxMissing == 1

\* most results a provider's service holds for one query
MaxResults == 2

\* largest return code of a child process drawn for a single run_phase call
MaxReturnCode == 2

\* most run_phase calls made one after the other on the same metadata
MaxCalls == 2

(* ------------------------- program constants -------------------------- *)

\* keys of the all_phases dict, in insertion order (main, lines 463-473)
all_phases ==
    << "technical", "fundamental", "research", "analysis", "sec",
       "wikipedia", "report", "deep", "final" >>

Range(s) == { s[i] : i \in 1..Len(s) }

PhaseNames == Range(all_phases)

\* a name that is no key of all_phases
BogusPhase == "bogus"

\* names a --phases list is drawn from; main() treats analysis, sec and
\* wikipedia exactly like fundamental and research
RequestNames ==
    { "technical", "fundamental", "research", "report", "deep", "final",
      BogusPhase }

\* config.PHASE_API_KEYS: the credentials each phase needs
PHASE_API_KEYS(phase) ==
    CASE phase \in { "technical", "fundamental" } -> { "OPENBB_PAT" }
      [] phase = "research" -> { "PERPLEXITY_API_KEY" }
      [] phase = "sec" -> { "SEC_FIRM", "SEC_USER" }
      [] OTHER -> {}

\* config.MAX_PARALLEL_WORKERS: size of the process pool
MAX_PARALLEL_WORKERS == 2

\* names are kept as the sequence of their parts: the symbol of the run,
\* a symbol that begins with it and an underscore, an unrelated symbol
Symbol == << "SYM" >>
LongerSymbol == << "SYM", "_", "B" >>
OtherSymbol == << "OTHER" >>

\* strftime(DATE_FORMAT_FILE) of today and of an earlier day
Dates == { "today", "before" }

\* line 449: f"{symbol}_{date_str}"
DirName(symbol, date_str) == symbol \o << "_", date_str >>

\* directories under WORK_DIR: the current run's, an older one of the same
\* symbol, one of an unrelated symbol, one of the longer symbol
CurDir == DirName(Symbol, "today")
OldDir == DirName(Symbol, "before")
OtherDir == DirName(OtherSymbol, "before")
LongerDir == DirName(LongerSymbol, "before")

\* how a child process started by subprocess.run can end
Outcomes == { "exit0", "nonzero", "timeout", "notfound", "unexpected" }

(* ------------------------------ state --------------------------------- *)

VARIABLES
    pc,             \* position of main()
    phases_to_run,  \* the requested phases, in the order given
    skip_cleanup,   \* args.skip_cleanup
    env,            \* the API keys set in the environment
    lookup,         \* validate_ticker: how the lookup child ended
    dirs,           \* directories that exist under WORK_DIR
    file,           \* 00_metadata.json: whether it exists, and its content
    metadata,       \* the parent's metadata dict
    success_count,
    failed_count,
    tasks,          \* the futures of the parallel stage, in submission order
    lock,           \* holder of metadata_lock (task index), 0 when free
    exit_code,      \* what main() returned, -1 while it runs
    launched,       \* history: phases whose child process was launched
    ended,          \* history: <<phase, outcome>> of the children that ended
    skipped,        \* history: phases found without a script by exists()
    faults,         \* history: child processes that ended abnormally
    returned,       \* history: <<phase, result>> of every run_phase outcome
                    \* the parent has seen (a worker exception counts FALSE)
    chain,          \* resolver: the providers of the running fallback chain
    limit,          \* resolver: the limit argument (args.limit)
    answers,        \* resolver: what each provider's service would answer
    attempt,        \* resolver: position in chain of the provider tried next
    invoked,        \* resolver history: the providers invoked, in order
    all_errors,     \* resolver: the all_errors dict, as <<key, error>> pairs
    resolved,       \* resolver: the tuple the fallback function returned
    result,         \* run_phase: what subprocess.run gave the running call
    query,          \* query_perplexity: arguments, loop counter and history
    script          \* a phase script's main(): its tasks and its exit code

inputs == << phases_to_run, skip_cleanup, env >>
disk == << dirs, file >>
counts == << success_count, failed_count >>
pool == << tasks, lock >>
history == << launched, ended, skipped, faults, returned >>
resolver == << chain, limit, answers, attempt, invoked, all_errors, resolved >>

\* the state of the functions that are also modelled on their own
units == << resolver, result, query, script >>

vars ==
    << pc, inputs, lookup, disk, metadata, counts, pool, exit_code, history,
       units >>

(* --------------------------- pure functions --------------------------- *)

\* create_metadata: the fresh metadata dict
EmptyMetadata ==
    [ phases_completed |-> << >>, phases_failed |-> << >>, errors |-> << >> ]

\* mutant: no 'except FileNotFoundError' clause, the generic handler reports
ErrorMsg_generic(phase_name, outcome) ==
    << IF outcome = "notfound" THEN "unexpected" ELSE outcome, phase_name >>

\* run_phase: the error message of a failed outcome, its kind ("failed with
\* return code", "timed out", "Phase script not found", "encountered
\* unexpected error") and the phase it names
ErrorMsg(phase_name, outcome) == << outcome, phase_name >>

\* mutant: the unexpected exception strikes after the success was appended
run_phase_record_both(meta, phase_name, outcome) ==
    IF outcome = "exit0"
    THEN [ meta EXCEPT !.phases_completed = Append(@, phase_name) ]
    ELSE IF outcome = "unexpected"
    THEN [ meta EXCEPT !.phases_completed = Append(@, phase_name),
                       !.phases_failed = Append(@, phase_name),
                       !.errors = Append(@, << outcome, phase_name >>) ]
    ELSE [ meta EXCEPT !.phases_failed = Append(@, phase_name),
                       !.errors = Append(@, << outcome, phase_name >>) ]

\* mutant: the timeout handler appends the phase without its error
run_phase_record_noerror(meta, phase_name, outcome) ==
    IF outcome = "exit0"
    THEN [ meta EXCEPT !.phases_completed = Append(@, phase_name) ]
    ELSE IF outcome = "timeout"
    THEN [ meta EXCEPT !.phases_failed = Append(@, phase_name) ]
    ELSE [ meta EXCEPT !.phases_failed = Append(@, phase_name),
                       !.errors = Append(@, ErrorMsg(phase_name, outcome)) ]

\* run_phase: the metadata after the outcome of the child has been recorded
run_phase_record(meta, phase_name, outcome) ==
    IF outcome = "exit0"
    THEN [ meta EXCEPT !.phases_completed = Append(@, phase_name) ]
    ELSE [ meta EXCEPT !.phases_failed = Append(@, phase_name),
                       !.errors = Append(@, ErrorMsg(phase_name, outcome)) ]

\* run_phase: its return value
run_phase_result(outcome) == outcome = "exit0"

\* save_metadata: 00_metadata.json after the dump of meta
save_metadata(meta) == [ exists |-> TRUE, content |-> meta ]

\* mutant: only the first phase's keys are looked at
validate_api_keys_first(phases, environment) ==
    { k \in PHASE_API_KEYS(phases[1]) : k \notin environment }

\* validate_api_keys: the keys required by the phases and absent from the
\* environment
validate_api_keys(phases, environment) ==
    { k \in UNION { PHASE_API_KEYS(phases[i]) : i \in 1..Len(phases) } :
        k \notin environment }

\* validate_ticker: its return value for each way the lookup can end
validate_ticker(how) ==
    CASE how = "exit0" -> TRUE
      [] how = "nonzero" -> FALSE
      [] OTHER -> TRUE

\* lines 164-165: glob(f"{symbol}_*") yields the names that begin with the
\* symbol and an underscore
GlobMatch(name, symbol) ==
    /\ Len(name) > Len(symbol)
    /\ SubSeq(name, 1, Len(symbol) + 1) = symbol \o << "_" >>

\* cleanup_old_directories: the directories left under WORK_DIR, stuck
\* being those whose rmtree raises OSError
cleanup_old_directories(ds, symbol, current_dir, skip, stuck) ==
    IF skip THEN ds
    ELSE { d \in ds :
             ~GlobMatch(d, symbol) \/ d = current_dir \/ d \in stuck }

\* main: the phase groups
technical_phase == "technical" \in Range(phases_to_run)
report_phase == "report" \in Range(phases_to_run)
deep_phase == "deep" \in Range(phases_to_run)
final_phase == "final" \in Range(phases_to_run)

RECURSIVE Filter(_, _)
Filter(s, keep) ==
    IF s = << >> THEN << >>
    ELSE IF Head(s) \in keep THEN << Head(s) >> \o Filter(Tail(s), keep)
    ELSE Filter(Tail(s), keep)

\* mutant: technical is not taken out of the pool's phases
other_data_phases_all ==
    Filter(phases_to_run, Range(phases_to_run) \ { "report", "deep", "final" })

other_data_phases ==
    Filter(phases_to_run,
           Range(phases_to_run) \ { "technical", "report", "deep", "final" })

invalid_phases ==
    Filter(phases_to_run, Range(phases_to_run) \ PhaseNames)

(* ------------------------------- tasks -------------------------------- *)

\* a future of the pool and the run_phase call behind it; meta is the copy
\* of the metadata dict that the call works on in its worker process
NewTask(phase_name, meta) ==
    [ phase |-> phase_name, state |-> "queued", outcome |-> "none",
      meta |-> meta ]

\* a future whose result the parent has consumed: the worker's copy of the
\* metadata is gone with the call
Consumed(t) ==
    [ t EXCEPT !.state = "collected", !.outcome = "none",
               !.meta = EmptyMetadata ]

TaskIdx == 1..Len(tasks)

Finished(i) == tasks[i].state \in { "done", "raised", "collected" }

\* workers of the pool that are busy with a call
Busy ==
    { i \in TaskIdx : tasks[i].state \in { "running", "waitlock", "locked" } }

(* ------------------------------- Init --------------------------------- *)

\* no fallback function has been called
NotResolved == [ results |-> 0, provider_used |-> "" ]

\* subprocess.run has not returned
NoResult == [ raised |-> "none", returncode |-> 0, stderr |-> "" ]

\* query_perplexity has not been called
NoQuery ==
    [ max_retries |-> 0, multiplier |-> 1, delay |-> 1, attempt |-> 0,
      calls |-> << >>, waits |-> << >>, value |-> "pending" ]

\* no phase script is running
NoScript ==
    [ name |-> "", task |-> 0, success_count |-> 0, failed |-> {},
      peers_file |-> -1, exit |-> -1 ]

ResolverIdle ==
    /\ chain = << >>
    /\ limit = 0
    /\ answers = << >>
    /\ attempt = 0
    /\ invoked = << >>
    /\ all_errors = {}
    /\ resolved = NotResolved

Init ==
    /\ pc = "start"
    /\ phases_to_run = << >>
    /\ skip_cleanup = FALSE
    /\ env = {}
    /\ lookup = "none"
    /\ dirs = { OldDir, OtherDir }
    /\ file = [ exists |-> FALSE, content |-> EmptyMetadata ]
    /\ metadata = EmptyMetadata
    /\ success_count = 0
    /\ failed_count = 0
    /\ tasks = << >>
    /\ lock = 0
    /\ exit_code = -1
    /\ launched = {}
    /\ ended = {}
    /\ skipped = {}
    /\ faults = 0
    /\ returned = {}
    /\ ResolverIdle
    /\ result = NoResult
    /\ query = NoQuery
    /\ script = NoScript

(* --------------------------- main: set-up ----------------------------- *)

\* the --phases lists the model draws
PhaseLists ==
    UNION { [ 1..n -> RequestNames ] : n \in 1..MaxPhases }

\* the keys some phase of the list requires: the part of the environment
\* that main() reads
RequiredKeys(phases) ==
    UNION { PHASE_API_KEYS(phases[i]) : i \in 1..Len(phases) }

\* load_dotenv, parse_args, and lines 475-478: the comma-separated list
\* ('all' stands for the list all_phases, which is longer than MaxPhases)
ParseArgs ==
    /\ pc = "start"
    /\ \E l \in PhaseLists :
         /\ phases_to_run' = l
         /\ \E e \in SUBSET RequiredKeys(l) : env' = e
    /\ \E b \in BOOLEAN : skip_cleanup' = b
    /\ pc' = "validate_ticker"
    /\ UNCHANGED units
    /\ UNCHANGED << lookup, disk, metadata, counts, pool, exit_code, history >>

\* validate_ticker, lines 109-137: the lookup child ends with exit 0, a
\* non-zero exit, a timeout, FileNotFoundError or another exception
LookupTicker ==
    /\ pc = "validate_ticker"
    /\ \E how \in Outcomes : lookup' = how
    /\ pc' = "ticker_result"
    /\ UNCHANGED units
    /\ UNCHANGED << inputs, disk, metadata, counts, pool, exit_code, history >>

\* lines 436-441: an invalid ticker ends the run with 1
TickerDecision ==
    /\ pc = "ticker_result"
    /\ IF validate_ticker(lookup)
       THEN pc' = "setup" /\ lookup' = "none" /\ exit_code' = exit_code
       ELSE pc' = "abort_ticker" /\ lookup' = lookup /\ exit_code' = 1
    /\ UNCHANGED units
    /\ UNCHANGED << inputs, disk, metadata, counts, pool, history >>

\* lines 448-459: cleanup, ensure_directory(work_dir), create_metadata
SetupWorkDir ==
    /\ pc = "setup"
    /\ dirs' = cleanup_old_directories(dirs, Symbol, CurDir, skip_cleanup, {})
                 \cup { CurDir }
    /\ metadata' = EmptyMetadata
    /\ file' = save_metadata(EmptyMetadata)
    /\ pc' = "check_phases"
    /\ UNCHANGED units
    /\ UNCHANGED << inputs, lookup, counts, pool, exit_code, history >>

\* lines 480-485: an invalid phase name ends the run with 1
ValidatePhaseNames ==
    /\ pc = "check_phases"
    /\ IF invalid_phases # << >>
       THEN pc' = "abort_phases" /\ exit_code' = 1
       ELSE pc' = "check_keys" /\ exit_code' = exit_code
    /\ UNCHANGED units
    /\ UNCHANGED << inputs, lookup, disk, metadata, counts, pool, history >>

\* lines 492-501: a missing key ends the run with 1
ValidateApiKeys ==
    /\ pc = "check_keys"
    /\ IF validate_api_keys(phases_to_run, env) # {}
       THEN pc' = "abort_keys" /\ exit_code' = 1
       ELSE pc' = "overview" /\ exit_code' = exit_code
    /\ UNCHANGED units
    /\ UNCHANGED << inputs, lookup, disk, metadata, counts, pool, history >>

\* lines 505-514: save_company_overview, whose result only decides a log line
CompanyOverview ==
    /\ pc = "overview"
    /\ pc' = "technical"
    /\ UNCHANGED units
    /\ UNCHANGED << inputs, lookup, disk, metadata, counts, pool, exit_code,
                    history >>

(* ----------------------- main: sequential phases ---------------------- *)

\* the phases main() runs itself, one run_phase call at a time
SeqPhases == { "technical", "report", "deep", "final" }

\* main() is inside run_phase(p): the child process of p is in flight
Running(p) ==
    CASE p = "technical" -> "technical_running"
      [] p = "report" -> "report_running"
      [] p = "deep" -> "deep_running"
      [] p = "final" -> "final_running"

\* mutant: the final block placed before the deep block
NextStage_swapped(p) ==
    CASE p = "technical" -> "parallel"
      [] p = "report" -> "final"
      [] p = "final" -> "deep"
      [] p = "deep" -> "summary"

\* the block of main() that follows the block of p
NextStage(p) ==
    CASE p = "technical" -> "parallel"
      [] p = "report" -> "deep"
      [] p = "deep" -> "final"
      [] p = "final" -> "summary"

\* phase_script.exists(): what it can answer for the script of phase p
Exists(p) ==
    IF p \in skipped THEN { FALSE }
    ELSE IF p \in launched \/ Cardinality(skipped) >= MaxMissing
    THEN { TRUE }
    ELSE BOOLEAN

\* how the child process of a phase can end
Endings ==
    IF faults < MaxFaults THEN Outcomes ELSE { "exit0", "nonzero" }

Abnormal(outcome) == outcome \notin { "exit0", "nonzero" }

\* mutant: no exists() check, run_phase is called for an absent script too
StageEnter_unchecked(p) ==
    /\ pc = p
    /\ IF p \notin Range(phases_to_run)
       THEN /\ pc' = NextStage(p)
            /\ UNCHANGED << launched, skipped >>
       ELSE \E script_exists \in Exists(p) :
              /\ pc' = Running(p)
              /\ launched' = launched \cup { p }
              /\ skipped' = IF script_exists THEN skipped
                            ELSE skipped \cup { p }
    /\ UNCHANGED units
    /\ UNCHANGED << inputs, lookup, disk, metadata, counts, pool, exit_code,
                    ended, faults, returned >>

\* lines 532-552, 589-601, 604-617, 620-632: 'if <p>_phase:' and
\* 'if phase_script.exists():', up to the subprocess.run of run_phase
StageEnter(p) ==
    /\ pc = p
    /\ IF p \notin Range(phases_to_run)
       THEN /\ pc' = NextStage(p)
            /\ UNCHANGED << launched, skipped >>
       ELSE \E script_exists \in Exists(p) :
              IF script_exists
              THEN /\ pc' = Running(p)
                   /\ launched' = launched \cup { p }
                   /\ UNCHANGED skipped
              ELSE /\ pc' = NextStage(p)
                   /\ skipped' = skipped \cup { p }
                   /\ UNCHANGED launched
    /\ UNCHANGED units
    /\ UNCHANGED << inputs, lookup, disk, metadata, counts, pool, exit_code,
                    ended, faults, returned >>

\* mutant: a failed phase ends the run, main() goes to the summary
AfterPhase_fatal(p, success) == IF success THEN NextStage(p) ELSE "summary"

\* lines 545-550, 593-599, 609-615, 624-630: whatever run_phase returned,
\* main() counts it and goes on to the following block
AfterPhase(p, success) == NextStage(p)

\* run_phase without a lock, lines 285-372, and the count that follows it:
\* the child ends, its outcome is appended to metadata and saved
PhaseReturn(p) ==
    /\ pc = Running(p)
    /\ \E outcome \in Endings :
         /\ faults' = IF Abnormal(outcome) THEN faults + 1 ELSE faults
         /\ ended' = ended \cup { << p, outcome >> }
         /\ metadata' = run_phase_record(metadata, p, outcome)
         /\ file' = save_metadata(metadata')
         /\ IF run_phase_result(outcome)
            THEN success_count' = success_count + 1
                 /\ failed_count' = failed_count
            ELSE failed_count' = failed_count + 1
                 /\ success_count' = success_count
         /\ returned' = returned \cup { << p, run_phase_result(outcome) >> }
         /\ pc' = AfterPhase(p, run_phase_result(outcome))
    /\ UNCHANGED units
    /\ UNCHANGED << inputs, lookup, dirs, pool, exit_code, launched, skipped >>

(* ------------------------ main: parallel stage ------------------------ *)

\* lines 566-574: one future per data phase whose script exists; the
\* arguments of the call, metadata among them, are pickled for the worker
RECURSIVE Submit(_, _, _)
Submit(phases, absent, meta) ==
    IF phases = << >> THEN << >>
    ELSE IF Head(phases) \notin absent
    THEN << NewTask(Head(phases), meta) >>
             \o Submit(Tail(phases), absent, meta)
    ELSE Submit(Tail(phases), absent, meta)

\* mutant: the technical phase is started without waiting for it
ParallelReady_early == pc \in { "parallel", "technical_running" }

\* line 555: main() has reached the parallel stage
ParallelReady == pc = "parallel"

\* mutant: no as_completed loop, the pool is left without waiting
AfterSubmit_nowait(ts) == "report"

\* lines 576-588: where main() goes once the futures ts are submitted
AfterSubmit(ts) == IF ts = << >> THEN "report" ELSE "collect"

\* lines 555-574
SubmitParallel ==
    /\ ParallelReady
    /\ IF other_data_phases = << >>
       THEN /\ pc' = "report"
            /\ UNCHANGED << tasks, skipped >>
       ELSE \E absent \in SUBSET Range(other_data_phases) :
              /\ Cardinality(skipped \cup absent) <= MaxMissing
              /\ tasks' = Submit(other_data_phases, absent, metadata)
              /\ skipped' = skipped \cup absent
              /\ pc' = AfterSubmit(tasks')
    /\ UNCHANGED units
    /\ UNCHANGED << inputs, lookup, disk, metadata, counts, lock, exit_code,
                    launched, ended, faults, returned >>

\* a free worker of the pool takes the oldest queued call and run_phase
\* starts the child process
StartTask(i) ==
    /\ tasks[i].state = "queued"
    /\ \A j \in 1..(i - 1) : tasks[j].state # "queued"
    /\ Cardinality(Busy) < MAX_PARALLEL_WORKERS
    /\ tasks' = [ tasks EXCEPT ![i].state = "running" ]
    /\ launched' = launched \cup { tasks[i].phase }
    /\ UNCHANGED units
    /\ UNCHANGED << pc, inputs, lookup, disk, metadata, counts, lock,
                    exit_code, ended, skipped, faults, returned >>

\* subprocess.run returns or raises in the worker
ChildEnd(i) ==
    /\ tasks[i].state = "running"
    /\ \E outcome \in Endings :
         /\ faults' = IF Abnormal(outcome) THEN faults + 1 ELSE faults
         /\ ended' = ended \cup { << tasks[i].phase, outcome >> }
         /\ tasks' = [ tasks EXCEPT ![i].state = "waitlock",
                                    ![i].outcome = outcome ]
    /\ UNCHANGED units
    /\ UNCHANGED << pc, inputs, lookup, disk, metadata, counts, lock,
                    exit_code, launched, skipped, returned >>

\* mutant: run_phase is handed no lock and enters the section at once
AcquireLock_none(i) ==
    /\ tasks[i].state = "waitlock"
    /\ lock' = i
    /\ tasks' = [ tasks EXCEPT ![i].state = "locked" ]
    /\ UNCHANGED units
    /\ UNCHANGED << pc, inputs, lookup, disk, metadata, counts, exit_code,
                    history >>

\* 'with metadata_lock:'
AcquireLock(i) ==
    /\ tasks[i].state = "waitlock"
    /\ lock = 0
    /\ lock' = i
    /\ tasks' = [ tasks EXCEPT ![i].state = "locked" ]
    /\ UNCHANGED units
    /\ UNCHANGED << pc, inputs, lookup, disk, metadata, counts, exit_code,
                    history >>

\* the body of 'with metadata_lock:': append to the worker's metadata,
\* save_metadata, release the lock; run_phase returns
RecordOutcome(i) ==
    /\ tasks[i].state = "locked"
    /\ lock = i
    /\ LET meta == run_phase_record(tasks[i].meta, tasks[i].phase,
                                    tasks[i].outcome)
       IN /\ tasks' = [ tasks EXCEPT ![i].state = "done", ![i].meta = meta ]
          /\ file' = save_metadata(meta)
    /\ lock' = 0
    /\ UNCHANGED units
    /\ UNCHANGED << pc, inputs, lookup, dirs, metadata, counts, exit_code,
                    history >>

\* the call fails in its worker: the future holds an exception
TaskRaise(i) ==
    /\ tasks[i].state = "running"
    /\ faults < MaxFaults
    /\ faults' = faults + 1
    /\ tasks' = [ tasks EXCEPT ![i].state = "raised" ]
    /\ UNCHANGED units
    /\ UNCHANGED << pc, inputs, lookup, disk, metadata, counts, lock,
                    exit_code, launched, ended, skipped, returned >>

\* mutant: the loop is left after the first future
AllCollected_first(ts) == \E j \in 1..Len(ts) : ts[j].state = "collected"

\* the as_completed loop ends once every future has been yielded
AllCollected(ts) == \A j \in 1..Len(ts) : ts[j].state = "collected"

\* mutant: no 'except Exception' around future.result(), the exception of
\* a worker is not turned into a count
Collect_uncaught(i) ==
    /\ pc = "collect"
    /\ tasks[i].state = "done"
    /\ LET success == /\ tasks[i].state = "done"
                      /\ run_phase_result(tasks[i].outcome)
       IN /\ IF success
             THEN success_count' = success_count + 1
                  /\ failed_count' = failed_count
             ELSE failed_count' = failed_count + 1
                  /\ success_count' = success_count
          /\ returned' = returned \cup { << tasks[i].phase, success >> }
    /\ tasks' = [ tasks EXCEPT ![i] = Consumed(tasks[i]) ]
    /\ pc' = IF AllCollected(tasks') THEN "report" ELSE "collect"
    /\ UNCHANGED units
    /\ UNCHANGED << inputs, lookup, disk, metadata, lock, exit_code,
                    launched, ended, skipped, faults >>

\* lines 576-586: as_completed yields a finished future, its result is
\* counted; after the last one the executor shuts down
Collect(i) ==
    /\ pc = "collect"
    /\ tasks[i].state \in { "done", "raised" }
    /\ LET success == /\ tasks[i].state = "done"
                      /\ run_phase_result(tasks[i].outcome)
       IN /\ IF success
             THEN success_count' = success_count + 1
                  /\ failed_count' = failed_count
             ELSE failed_count' = failed_count + 1
                  /\ success_count' = success_count
          /\ returned' = returned \cup { << tasks[i].phase, success >> }
    /\ tasks' = [ tasks EXCEPT ![i] = Consumed(tasks[i]) ]
    /\ pc' = IF AllCollected(tasks') THEN "report" ELSE "collect"
    /\ UNCHANGED units
    /\ UNCHANGED << inputs, lookup, disk, metadata, lock, exit_code,
                    launched, ended, skipped, faults >>

(* --------------------------- main: summary ---------------------------- *)

\* mutant: success means that nothing failed
ExitCode_nofail(successes) == IF failed_count = 0 THEN 0 ELSE 1

\* mutant: off by one
ExitCode_two(successes) == IF successes > 1 THEN 0 ELSE 1

\* lines 654-660
ExitCode(successes) == IF successes > 0 THEN 0 ELSE 1

Summary ==
    /\ pc = "summary"
    /\ exit_code' = ExitCode(success_count)
    /\ pc' = "done"
    /\ UNCHANGED units
    /\ UNCHANGED << inputs, lookup, disk, metadata, counts, pool, history >>

(* ---------------------------- specification --------------------------- *)

Next ==
    \/ ParseArgs
    \/ LookupTicker
    \/ TickerDecision
    \/ SetupWorkDir
    \/ ValidatePhaseNames
    \/ ValidateApiKeys
    \/ CompanyOverview
    \/ \E p \in SeqPhases : StageEnter(p)
    \/ \E p \in SeqPhases : PhaseReturn(p)
    \/ SubmitParallel
    \/ \E i \in TaskIdx : StartTask(i)
    \/ \E i \in TaskIdx : ChildEnd(i)
    \/ \E i \in TaskIdx : AcquireLock(i)
    \/ \E i \in TaskIdx : RecordOutcome(i)
    \/ \E i \in TaskIdx : TaskRaise(i)
    \/ \E i \in TaskIdx : Collect(i)
    \/ Summary

Spec == Init /\ [][Next]_vars

\* a run whose processes keep being scheduled: main() and the pool workers
\* take their next step, and every child process ends (subprocess.run is
\* given a timeout, line 318)
FairSpec == Spec /\ WF_vars(Next)

(* ---------------------- provider fallback chains ---------------------- *)
(* lookup_ticker.py search_ticker_with_fallback and research_technical.py *)
(* get_peers_with_fallback try their providers one after the other.  A    *)
(* provider function returns (success, results, error); results is kept   *)
(* as the number of entries, error as its string, "None" for None.        *)

\* lookup_ticker.py lines 267-298: yfinance, then Finnhub, then OpenBB
TickerChain == << "yfinance", "finnhub", "openbb" >>

\* research_technical.py lines 254-280: Finnhub, then OpenBB
PeersChain == << "finnhub", "openbb" >>

Providers == Range(TickerChain)

\* what a provider's service does when asked: it raises, or it holds n
\* entries for the query
Answers ==
    { [ raises |-> TRUE, n |-> 0 ] }
      \cup { [ raises |-> FALSE, n |-> n ] : n \in 0..MaxResults }

\* the --limit values drawn (argparse type=int: any integer is accepted)
Limits == -1..MaxResults

\* the credentials the provider functions read with os.getenv
ResolverKeys == { "FINNHUB_API_KEY", "OPENBB_PAT" }

\* len(xs[:lim]) for a list of n entries
Slice(n, lim) ==
    IF lim >= 0
    THEN (IF lim < n THEN lim ELSE n)
    ELSE (IF n + lim > 0 THEN n + lim ELSE 0)

Failure(error) == [ success |-> FALSE, results |-> 0, error |-> error ]

Success(results) == [ success |-> TRUE, results |-> results, error |-> "None" ]

\* lookup_ticker.py lines 74-105: one entry when ticker.info names a symbol
search_ticker_yfinance(answer) ==
    IF answer.raises THEN Failure("yfinance error")
    ELSE IF answer.n > 0 THEN Success(1)
    ELSE Failure("yfinance doesn't support company name search")

\* lookup_ticker.py lines 130-171
search_ticker_finnhub(environment, answer, lim) ==
    IF "FINNHUB_API_KEY" \notin environment
    THEN Failure("FINNHUB_API_KEY not set in environment")
    ELSE IF answer.raises THEN Failure("Finnhub error")
    ELSE IF answer.n = 0 THEN Failure("Finnhub returned empty results")
    ELSE Success(Slice(answer.n, lim))

\* lookup_ticker.py lines 195-242
search_ticker_openbb(environment, answer, lim) ==
    IF "OPENBB_PAT" \notin environment
    THEN Failure("OPENBB_PAT not set in environment")
    ELSE IF answer.raises THEN Failure("OpenBB error")
    ELSE LET results == IF lim # 0 /\ answer.n > lim
                        THEN Slice(answer.n, lim)
                        ELSE answer.n
         IN  IF results = 0 THEN Failure("OpenBB returned empty results")
             ELSE Success(results)

\* research_technical.py lines 110-174: n counts the peers enriched
get_peers_finnhub(environment, answer) ==
    IF "FINNHUB_API_KEY" \notin environment
    THEN Failure("FINNHUB_API_KEY not set in environment")
    ELSE IF answer.raises THEN Failure("Finnhub error")
    ELSE IF answer.n = 0 THEN Failure("Finnhub returned no peers")
    ELSE Success(answer.n)

\* research_technical.py lines 197-229
get_peers_openbb(environment, answer) ==
    IF "OPENBB_PAT" \notin environment
    THEN Failure("OPENBB_PAT not set in environment")
    ELSE IF answer.raises THEN Failure("OpenBB/FMP error")
    ELSE IF answer.n = 0 THEN Failure("OpenBB/FMP returned empty results")
    ELSE Success(answer.n)

\* the call the fallback function makes for provider p of chain c
Invoke(c, p, environment, answer, lim) ==
    IF c = TickerChain
    THEN CASE p = "yfinance" -> search_ticker_yfinance(answer)
           [] p = "finnhub" -> search_ticker_finnhub(environment, answer, lim)
           [] OTHER -> search_ticker_openbb(environment, answer, lim)
    ELSE CASE p = "finnhub" -> get_peers_finnhub(environment, answer)
           [] OTHER -> get_peers_openbb(environment, answer)

\* mutant: 'if success:', the results are not looked at
Succeeded_flag(r) == r.success

\* 'if success and results:' (lookup_ticker.py lines 272, 283, 294;
\* research_technical.py lines 260, 274)
Succeeded(r) == r.success /\ r.results > 0

\* the provider name returned with a result
ProviderUsed(c, p) ==
    CASE p = "yfinance" -> "yfinance"
      [] p = "finnhub" -> "Finnhub"
      [] OTHER -> IF c = TickerChain THEN "OpenBB+FMP (provider=cboe)"
                  ELSE "OpenBB+FMP"

\* all_errors[key] = error
SetError(errors, key, error) ==
    { e \in errors : e[1] # key } \cup { << key, error >> }

\* mutant: the provider after the next one is tried
NextProvider_skip(i) == i + 2

\* the code falls through to the block of the following provider
NextProvider(i) == i + 1

orchestrator ==
    << phases_to_run, skip_cleanup, lookup, disk, metadata, counts, pool,
       exit_code, history >>

InitResolver ==
    /\ pc = "resolver"
    /\ phases_to_run = << >>
    /\ skip_cleanup = FALSE
    /\ env = {}
    /\ lookup = "none"
    /\ dirs = { OldDir, OtherDir }
    /\ file = [ exists |-> FALSE, content |-> EmptyMetadata ]
    /\ metadata = EmptyMetadata
    /\ success_count = 0
    /\ failed_count = 0
    /\ tasks = << >>
    /\ lock = 0
    /\ exit_code = -1
    /\ launched = {}
    /\ ended = {}
    /\ skipped = {}
    /\ faults = 0
    /\ returned = {}
    /\ ResolverIdle
    /\ result = NoResult
    /\ query = NoQuery
    /\ script = NoScript

\* a fallback function is called: 'all_errors = {}' (lookup_ticker.py line
\* 265, research_technical.py line 252)
CallResolver ==
    /\ pc = "resolver"
    /\ \E c \in { TickerChain, PeersChain }, lim \in Limits,
          a \in [ Providers -> Answers ], e \in SUBSET ResolverKeys :
         /\ chain' = c
         /\ limit' = lim
         /\ answers' = a
         /\ env' = e
    /\ attempt' = 1
    /\ all_errors' = {}
    /\ pc' = "try_provider"
    /\ UNCHANGED << invoked, resolved >>
    /\ UNCHANGED << orchestrator, result, query, script >>

\* one 'Try <provider>' block: the call, the all_errors entry, and the
\* return when it succeeded with results
TryProvider ==
    /\ pc = "try_provider"
    /\ attempt <= Len(chain)
    /\ LET p == chain[attempt]
           r == Invoke(chain, p, env, answers[p], limit)
       IN  /\ invoked' = Append(invoked, p)
           /\ all_errors' = SetError(all_errors, p, r.error)
           /\ IF Succeeded(r)
              THEN /\ resolved' = [ results |-> r.results,
                                    provider_used |-> ProviderUsed(chain, p) ]
                   /\ pc' = "resolved"
                   /\ UNCHANGED attempt
              ELSE /\ attempt' = NextProvider(attempt)
                   /\ UNCHANGED << pc, resolved >>
    /\ UNCHANGED << chain, limit, answers, env >>
    /\ UNCHANGED << orchestrator, result, query, script >>

\* '# All providers failed' (lookup_ticker.py line 301,
\* research_technical.py line 284)
AllProvidersFailed ==
    /\ pc = "try_provider"
    /\ attempt > Len(chain)
    /\ resolved' = [ results |-> 0, provider_used |-> "none" ]
    /\ pc' = "resolved"
    /\ UNCHANGED << chain, limit, answers, env, attempt, invoked, all_errors >>
    /\ UNCHANGED << orchestrator, result, query, script >>

NextResolver ==
    \/ CallResolver
    \/ TryProvider
    \/ AllProvidersFailed

SpecResolver == InitResolver /\ [][NextResolver]_vars

(* ------------- ticker validation through the lookup script ------------ *)
(* validate_ticker runs lookup_ticker.py as a child with '--limit 1'; the *)
(* child's exit code comes from its fallback chain.                       *)

\* lookup_ticker.py main, lines 446-459 and 488: 1 when no provider gave a
\* result, 0 otherwise
lookup_ticker_main(results) == IF results = 0 THEN 1 ELSE 0

\* research_stock.py lines 111-131: the lookup child has run its chain and
\* exits, unless the 30 seconds were over first
LookupChild ==
    /\ pc = "resolved"
    /\ chain = TickerChain
    /\ limit = 1
    /\ \/ lookup' = IF lookup_ticker_main(resolved.results) = 0
                    THEN "exit0" ELSE "nonzero"
       \/ lookup' = "timeout"
    /\ pc' = "ticker_result"
    /\ UNCHANGED << inputs, disk, metadata, counts, pool, exit_code, history,
                    units >>

NextValidate ==
    \/ NextResolver
    \/ LookupChild
    \/ TickerDecision

SpecValidate == InitResolver /\ [][NextValidate]_vars

(* ------------------------- one run_phase call ------------------------- *)
(* run_phase called by the parent without a lock, as main() calls it for  *)
(* the technical, report, deep and final phases: here the child's return  *)
(* code and stderr are kept, and the error message with them.             *)

\* what the child wrote to stderr
Stderrs == { "", "rate limited" }

\* subprocess.run returns a CompletedProcess, or raises
ChildResults ==
    { [ raised |-> "none", returncode |-> rc, stderr |-> err ] :
        rc \in 0..MaxReturnCode, err \in Stderrs }
      \cup { [ raised |-> x, returncode |-> 0, stderr |-> "" ] :
               x \in { "timeout", "notfound", "unexpected" } }

\* mutant: the message leaves the child's stderr out
error_msg_nostderr(phase_name, res) ==
    [ kind |-> IF res.raised = "none" THEN "failed with return code"
               ELSE res.raised,
      phase |-> phase_name, returncode |-> res.returncode, stderr |-> "" ]

\* lines 314-316, 327, 343, 359: the parts the error message is made of;
\* ': {result.stderr}' is added only for a stderr that is not empty
error_msg(phase_name, res) ==
    [ kind |-> IF res.raised = "none" THEN "failed with return code"
               ELSE res.raised,
      phase |-> phase_name, returncode |-> res.returncode,
      stderr |-> res.stderr ]

\* lines 306-372: the metadata after run_phase recorded what the child did
run_phase_update(meta, phase_name, res) ==
    IF res.raised = "none" /\ res.returncode = 0
    THEN [ meta EXCEPT !.phases_completed = Append(@, phase_name) ]
    ELSE [ meta EXCEPT !.phases_failed = Append(@, phase_name),
                       !.errors = Append(@, error_msg(phase_name, res)) ]

\* lines 312, 323, 340, 356, 372: the return value of run_phase
run_phase_value(res) == res.raised = "none" /\ res.returncode = 0

InitRunPhase ==
    /\ pc = "run_phase"
    /\ phases_to_run = << >>
    /\ skip_cleanup = FALSE
    /\ env = {}
    /\ lookup = "none"
    /\ dirs = { CurDir }
    /\ file = save_metadata(EmptyMetadata)
    /\ metadata = EmptyMetadata
    /\ success_count = 0
    /\ failed_count = 0
    /\ tasks = << >>
    /\ lock = 0
    /\ exit_code = -1
    /\ launched = {}
    /\ ended = {}
    /\ skipped = {}
    /\ faults = 0
    /\ returned = {}
    /\ ResolverIdle
    /\ result = NoResult
    /\ query = NoQuery
    /\ script = NoScript

\* lines 273-290: run_phase is called and starts the child
CallRunPhase ==
    /\ pc = "run_phase"
    /\ Len(metadata.phases_completed) + Len(metadata.phases_failed) < MaxCalls
    /\ \E phase_name \in SeqPhases :
         /\ phase_name \notin launched
         /\ phases_to_run' = << phase_name >>
         /\ launched' = launched \cup { phase_name }
    /\ result' = NoResult
    /\ pc' = "run_phase_child"
    /\ UNCHANGED << skip_cleanup, env, lookup, disk, metadata, counts, pool,
                    exit_code, ended, skipped, faults, returned, resolver,
                    query, script >>

\* lines 285-290: subprocess.run returns or raises
ChildReturns ==
    /\ pc = "run_phase_child"
    /\ result' \in ChildResults
    /\ pc' = "run_phase_record"
    /\ UNCHANGED << inputs, lookup, disk, metadata, counts, pool, exit_code,
                    history, resolver, query, script >>

\* lines 306-372: the outcome is appended and saved, run_phase returns
RecordResult ==
    /\ pc = "run_phase_record"
    /\ metadata' = run_phase_update(metadata, phases_to_run[1], result)
    /\ file' = save_metadata(metadata')
    /\ returned' = returned
                     \cup { << phases_to_run[1], run_phase_value(result) >> }
    /\ pc' = "run_phase"
    /\ UNCHANGED << inputs, lookup, dirs, counts, pool, exit_code, launched,
                    ended, skipped, faults, resolver, result, query,
                    script >>

NextRunPhase ==
    \/ CallRunPhase
    \/ ChildReturns
    \/ RecordResult

SpecRunPhase == InitRunPhase /\ [][NextRunPhase]_vars

(* --------------------- the work directory clean-up -------------------- *)
(* cleanup_old_directories and ensure_directory for a run of Symbol, on   *)
(* any content of WORK_DIR.                                               *)

\* the directories earlier runs can have left under WORK_DIR
AllDirs ==
    { DirName(s, d) : s \in { Symbol, LongerSymbol, OtherSymbol },
                      d \in Dates }

InitCleanup ==
    /\ pc = "cleanup"
    /\ phases_to_run = << >>
    /\ skip_cleanup \in BOOLEAN
    /\ env = {}
    /\ lookup = "none"
    /\ dirs \in SUBSET AllDirs
    /\ file = [ exists |-> FALSE, content |-> EmptyMetadata ]
    /\ metadata = EmptyMetadata
    /\ success_count = 0
    /\ failed_count = 0
    /\ tasks = << >>
    /\ lock = 0
    /\ exit_code = -1
    /\ launched = {}
    /\ ended = {}
    /\ skipped = {}
    /\ faults = 0
    /\ returned = {}
    /\ ResolverIdle
    /\ result = NoResult
    /\ query = NoQuery
    /\ script = NoScript

\* line 452: cleanup_old_directories(symbol, work_dir, args.skip_cleanup)
Cleanup ==
    /\ pc = "cleanup"
    /\ \E stuck \in SUBSET dirs :
         dirs' = cleanup_old_directories(dirs, Symbol, CurDir, skip_cleanup,
                                         stuck)
    /\ pc' = "ensure_directory"
    /\ UNCHANGED << inputs, lookup, file, metadata, counts, pool, exit_code,
                    history, units >>

\* line 455: ensure_directory(work_dir)
EnsureDirectory ==
    /\ pc = "ensure_directory"
    /\ dirs' = dirs \cup { CurDir }
    /\ pc' = "cleanup_done"
    /\ UNCHANGED << inputs, lookup, file, metadata, counts, pool, exit_code,
                    history, units >>

NextCleanup ==
    \/ Cleanup
    \/ EnsureDirectory

SpecCleanup == InitCleanup /\ [][NextCleanup]_vars

(* -------------------------- query_perplexity -------------------------- *)
(* research_perplexity.query_perplexity: the retry loop around one call   *)
(* of the Perplexity API. An attempt is one call of                       *)
(* client.chat.completions.create.                                        *)

\* largest max_retries argument drawn
MaxRetries == 3

\* config.RETRY_BACKOFF_MULTIPLIER and config.RETRY_DELAY_SECONDS (imported
\* at lines 50-51): the values the model draws for them
Multipliers == { 1, 2, 3 }
Delays == { 1, 2 }

\* what one API call can give: a response with text, a response whose
\* content is None (len(result) raises inside the try), an exception
ApiAnswers == { "text", "null", "raise" }

\* 'a ** b' for a natural exponent
RECURSIVE Pow(_, _)
Pow(a, b) == IF b = 0 THEN 1 ELSE a * Pow(a, b - 1)

\* line 199, with a linear back-off instead
wait_time_linear(q) == (q.multiplier * q.attempt) * q.delay

\* line 199: (RETRY_BACKOFF_MULTIPLIER ** attempt) * RETRY_DELAY_SECONDS
wait_time(q) == Pow(q.multiplier, q.attempt) * q.delay

\* line 197: attempt < max_retries - 1
has_next_attempt(q) == q.attempt < q.max_retries - 1

InitQuery ==
    /\ pc = "query"
    /\ phases_to_run = << >>
    /\ skip_cleanup = FALSE
    /\ env \in { {}, { "PERPLEXITY_API_KEY" } }
    /\ lookup = "none"
    /\ dirs = { CurDir }
    /\ file = [ exists |-> FALSE, content |-> EmptyMetadata ]
    /\ metadata = EmptyMetadata
    /\ success_count = 0
    /\ failed_count = 0
    /\ tasks = << >>
    /\ lock = 0
    /\ exit_code = -1
    /\ launched = {}
    /\ ended = {}
    /\ skipped = {}
    /\ faults = 0
    /\ returned = {}
    /\ ResolverIdle
    /\ result = NoResult
    /\ script = NoScript
    /\ \E n \in 0..MaxRetries, m \in Multipliers, d \in Delays :
         query = [ NoQuery EXCEPT !.max_retries = n, !.multiplier = m,
                                  !.delay = d ]

\* lines 154-158: without the API key None is returned at once
QueryNoKey ==
    /\ pc = "query"
    /\ "PERPLEXITY_API_KEY" \notin env
    /\ query' = [ query EXCEPT !.value = "None" ]
    /\ pc' = "query_done"
    /\ UNCHANGED << orchestrator, env, resolver, result, script >>

\* lines 161-164: the client is built
QueryClient ==
    /\ pc = "query"
    /\ "PERPLEXITY_API_KEY" \in env
    /\ pc' = "query_loop"
    /\ UNCHANGED << orchestrator, env, units >>

\* lines 167-206: one iteration of the loop up to the sleep: the API call,
\* then the return of the text or the except clause
QueryAttempt ==
    /\ pc = "query_loop"
    /\ query.attempt < query.max_retries
    /\ \E a \in ApiAnswers :
         LET called == [ query EXCEPT !.calls = Append(@, a) ]
         IN  IF a = "text"
             THEN /\ query' = [ called EXCEPT !.value = "text" ]
                  /\ pc' = "query_done"
             ELSE IF has_next_attempt(query)
             THEN /\ query' = called
                  /\ pc' = "query_sleep"
             ELSE /\ query' = [ called EXCEPT !.value = "None" ]
                  /\ pc' = "query_done"
    /\ UNCHANGED << orchestrator, env, resolver, result, script >>

\* lines 199-202: time.sleep(wait_time), then the next iteration
QuerySleep ==
    /\ pc = "query_sleep"
    /\ query' = [ query EXCEPT !.waits = Append(@, wait_time(query)),
                               !.attempt = @ + 1 ]
    /\ pc' = "query_loop"
    /\ UNCHANGED << orchestrator, env, resolver, result, script >>

\* line 208: the loop ended without a return
QueryLoopEnds ==
    /\ pc = "query_loop"
    /\ query.attempt >= query.max_retries
    /\ query' = [ query EXCEPT !.value = "None" ]
    /\ pc' = "query_done"
    /\ UNCHANGED << orchestrator, env, resolver, result, script >>

NextQuery ==
    \/ QueryNoKey
    \/ QueryClient
    \/ QueryAttempt
    \/ QuerySleep
    \/ QueryLoopEnds

SpecQuery == InitQuery /\ [][NextQuery]_vars

\* every call returns or raises, and time.sleep returns
FairSpecQuery == SpecQuery /\ WF_vars(NextQuery)

(* ------------------------- the phase scripts -------------------------- *)
(* main() of research_technical.py, research_fundamental.py,              *)
(* research_perplexity.py and research_sec.py: the tasks in turn, the     *)
(* exit code, and what run_phase records for it. The third task of the    *)
(* technical script is save_peers_list.                                   *)

\* the phases whose script counts its tasks
ScriptNames == { "technical", "fundamental", "research", "sec" }

\* total_count of each script
total_count(name) ==
    CASE name = "technical" -> 3
      [] name = "fundamental" -> 5
      [] name = "research" -> 3
      [] name = "sec" -> 1

\* mutant: a partial success is an exit with 1
script_exit_code_strict(successes, total) ==
    IF successes = total THEN 0 ELSE 1

\* 'if success_count == total_count ... elif success_count > 0 ... else'
script_exit_code(successes, total) ==
    IF successes = total THEN 0
    ELSE IF successes > 0 THEN 0
    ELSE 1

\* the task function returned: True is counted
TaskReturned(s, ok) ==
    [ s EXCEPT !.task = @ + 1,
               !.success_count = IF ok THEN @ + 1 ELSE @,
               !.failed = IF ok THEN @ ELSE @ \cup { s.task } ]

\* research_technical.py line 1030: the task is save_peers_list
IsPeersTask(s) == s.name = "technical" /\ s.task = 3

InitScript ==
    /\ pc = "script_task"
    /\ phases_to_run = << >>
    /\ skip_cleanup = FALSE
    /\ env = {}
    /\ lookup = "none"
    /\ dirs = { CurDir }
    /\ file = save_metadata(EmptyMetadata)
    /\ metadata = EmptyMetadata
    /\ success_count = 0
    /\ failed_count = 0
    /\ tasks = << >>
    /\ lock = 0
    /\ exit_code = -1
    /\ launched = {}
    /\ ended = {}
    /\ skipped = {}
    /\ faults = 0
    /\ returned = {}
    /\ ResolverIdle
    /\ result = NoResult
    /\ query = NoQuery
    /\ \E name \in ScriptNames :
         script = [ NoScript EXCEPT !.name = name, !.task = 1 ]

\* 'if save_...(symbol, work_dir): success_count += 1', for every task but
\* save_peers_list: the task function returns True or False
ScriptTask ==
    /\ pc = "script_task"
    /\ script.task <= total_count(script.name)
    /\ ~IsPeersTask(script)
    /\ \E ok \in BOOLEAN : script' = TaskReturned(script, ok)
    /\ UNCHANGED << pc, orchestrator, env, resolver, result, query >>

\* save_peers_list with --peers (lines 823-855, 880-888): the given
\* symbols are written, unless the write raises
CustomPeers ==
    /\ pc = "script_task"
    /\ IsPeersTask(script)
    /\ \E n \in 1..MaxResults, written \in BOOLEAN :
         script' = [ TaskReturned(script, written)
                       EXCEPT !.peers_file = IF written THEN n ELSE @ ]
    /\ UNCHANGED << pc, orchestrator, env, resolver, result, query >>

\* save_peers_list line 861: get_peers_with_fallback(symbol) is called
CallPeers ==
    /\ pc = "script_task"
    /\ IsPeersTask(script)
    /\ \E a \in [ Providers -> Answers ], e \in SUBSET ResolverKeys :
         /\ answers' = a
         /\ env' = e
    /\ chain' = PeersChain
    /\ attempt' = 1
    /\ all_errors' = {}
    /\ pc' = "try_provider"
    /\ UNCHANGED << limit, invoked, resolved >>
    /\ UNCHANGED << orchestrator, result, query, script >>

\* save_peers_list lines 863-888 and 953-962: whatever provider_used is,
\* peers_data is written to peers_list.json and True is returned; False
\* when the write raises
SavePeers ==
    /\ pc = "resolved"
    /\ \E written \in BOOLEAN :
         script' = [ TaskReturned(script, written)
                       EXCEPT !.peers_file = IF written THEN resolved.results
                                             ELSE @ ]
    /\ pc' = "script_task"
    /\ UNCHANGED << orchestrator, env, resolver, result, query >>

\* the summary of main(): its return value, handed to sys.exit
ScriptExit ==
    /\ pc = "script_task"
    /\ script.task > total_count(script.name)
    /\ script' = [ script EXCEPT !.exit =
                     script_exit_code(script.success_count,
                                      total_count(script.name)) ]
    /\ pc' = "script_exit"
    /\ UNCHANGED << orchestrator, env, resolver, result, query >>

\* research_stock.py lines 306-323: run_phase records the return code
RecordScript ==
    /\ pc = "script_exit"
    /\ metadata' = run_phase_record(metadata, script.name,
                                    IF script.exit = 0 THEN "exit0"
                                    ELSE "nonzero")
    /\ file' = save_metadata(metadata')
    /\ pc' = "script_recorded"
    /\ UNCHANGED << inputs, lookup, dirs, counts, pool, exit_code, history,
                    units >>

NextScript ==
    \/ ScriptTask
    \/ CustomPeers
    \/ CallPeers
    \/ TryProvider
    \/ AllProvidersFailed
    \/ SavePeers
    \/ ScriptExit
    \/ RecordScript

SpecScript == InitScript /\ [][NextScript]_vars

(* ------------------------------- claims ------------------------------- *)

EndedPhases == { e[1] : e \in ended }

Aborts == { "abort_ticker", "abort_phases", "abort_keys" }

TailPhases == { "report", "deep", "final" }

\* the phase names listed in a metadata dict
Completed(meta) == Range(meta.phases_completed)
Failed(meta) == Range(meta.phases_failed)

\* how many entries of the two lists of meta name phase p
Count(p, meta) ==
    Cardinality({ i \in 1..Len(meta.phases_completed) :
                    meta.phases_completed[i] = p })
    + Cardinality({ i \in 1..Len(meta.phases_failed) :
                      meta.phases_failed[i] = p })

\* every metadata dict of the run: the parent's, the document on disk, the
\* workers' copies
AllMetadata ==
    { metadata, file.content } \cup { tasks[i].meta : i \in TaskIdx }

\* C1: while the technical phase is requested, its script exists and its
\* child process has not ended, no other phase's child has been launched
TechnicalRunsAlone ==
    ( /\ technical_phase
      /\ "technical" \notin skipped
      /\ "technical" \notin EndedPhases )
    => launched \subseteq { "technical" }

\* C1 witness: technical requested second, ended, and another phase launched
TechnicalRunsAloneSeen ==
    /\ Len(phases_to_run) = 2
    /\ phases_to_run[2] = "technical"
    /\ "technical" \in EndedPhases
    /\ launched \ { "technical" } # {}

\* C2 (as claimed): at the end of a run in which two or more distinct data
\* phases recorded an outcome, each of them is listed exactly once in the
\* parent's metadata and in 00_metadata.json
DataRecorded == EndedPhases \ SeqPhases

NoRepeatedPhase ==
    \A i, j \in 1..Len(phases_to_run) :
      i # j => phases_to_run[i] # phases_to_run[j]

ParallelOutcomesKept ==
    ( /\ pc = "done"
      /\ NoRepeatedPhase
      /\ Cardinality(DataRecorded) >= 2 )
    => \A p \in DataRecorded :
         Count(p, metadata) = 1 /\ Count(p, file.content) = 1

ReportAfterParallel ==
    "report" \in launched =>
      /\ \A i \in TaskIdx : Finished(i)
      /\ \A p \in Range(other_data_phases) :
           p \in skipped \/ \E i \in TaskIdx : tasks[i].phase = p

\* C4 witness: report launched after a future of the pool was consumed
ReportAfterParallelSeen ==
    /\ "report" \in launched
    /\ \E i \in TaskIdx : tasks[i].state = "collected"

\* C5: a tail phase is launched only when every requested tail phase
\* before it was skipped or has returned, and at most one tail child is in
\* flight
TailBefore(a, b) ==
    b \in launched =>
      ( a \in Range(phases_to_run) => a \in skipped \/ a \in EndedPhases )

TailInOrder ==
    /\ TailBefore("report", "deep")
    /\ TailBefore("report", "final")
    /\ TailBefore("deep", "final")
    /\ Cardinality((launched \cap TailPhases) \ EndedPhases) <= 1

\* C5 witness: deep requested before report, launched after report failed
TailInOrderSeen ==
    /\ phases_to_run = << "deep", "report" >>
    /\ << "report", FALSE >> \in returned
    /\ "deep" \in launched

\* C6: main() returns 0 exactly when some run_phase call returned True,
\* and 1 otherwise
ExitCodeIffSuccess ==
    pc \in { "done" } \cup Aborts =>
      /\ exit_code \in { 0, 1 }
      /\ exit_code = 0 <=> \E p \in PhaseNames : << p, TRUE >> \in returned

\* C6 witness: a run that ended with 0 although a phase failed
ExitCodeIffSuccessSeen ==
    pc = "done" /\ exit_code = 0 /\ failed_count > 0

\* C7 (as claimed): a run that passed validation ends with 1 only if every
\* requested phase failed, and with 0 if a phase succeeded
FailureOnlyIfAllFailed ==
    pc = "done" =>
      /\ exit_code = 1 =>
           \A p \in Range(phases_to_run) : << p, FALSE >> \in returned
      /\ (\E p \in PhaseNames : << p, TRUE >> \in returned) => exit_code = 0

\* C7 (amended): a run that passed validation ends with 1 only if no
\* requested phase succeeded, each having failed or been skipped for its
\* absent script, and with 0 if a phase succeeded
FailureOnlyIfNoneSucceeded ==
    pc = "done" =>
      /\ exit_code = 1 =>
           \A p \in Range(phases_to_run) :
             /\ << p, TRUE >> \notin returned
             /\ p \in skipped \/ << p, FALSE >> \in returned
      /\ (\E p \in PhaseNames : << p, TRUE >> \in returned) => exit_code = 0

\* C7 witness: a run ending with 1, one phase skipped and one failed
FailureOnlyIfNoneSucceededSeen ==
    pc = "done" /\ exit_code = 1 /\ skipped # {} /\ failed_count > 0

\* C8: after a lookup that exited non-zero the run is aborted; with a
\* required credential absent the run does not get past validation; an
\* aborted run returns 1; in neither case is a phase child ever launched
PreValidation ==
    { "start", "validate_ticker", "ticker_result", "setup", "check_phases",
      "check_keys" }

MissingCredential == \E k \in RequiredKeys(phases_to_run) : k \notin env

ValidationAborts ==
    /\ (lookup = "nonzero" /\ pc # "ticker_result") => pc = "abort_ticker"
    /\ (MissingCredential /\ pc \notin PreValidation) => pc \in Aborts
    /\ pc \in Aborts => exit_code = 1
    /\ (lookup = "nonzero" \/ MissingCredential) => launched = {}

\* C8 witness: aborted for a key of the second requested phase
ValidationAbortsSeen ==
    /\ pc = "abort_keys"
    /\ Len(phases_to_run) = 2
    /\ PHASE_API_KEYS(phases_to_run[1]) = {}

\* C9 (as claimed): a run aborted for an invalid symbol or a missing
\* credential has created neither its work directory nor 00_metadata.json
NoDirectoryOnAbort ==
    pc \in { "abort_ticker", "abort_keys" } =>
      CurDir \notin dirs /\ ~file.exists

\* C10 (as claimed): at the end of a run every requested phase whose script
\* is absent is listed in phases_failed with a 'script not found' error
MissingScriptIsFailure ==
    pc = "done" =>
      \A p \in skipped :
        \E m \in { metadata, file.content } :
          p \in Failed(m) /\ << "notfound", p >> \in Range(m.errors)

\* C10 (amended): a phase found without a script by exists() is in no list
\* and in no count; a phase that was not requested is in no list; a phase
\* whose script is missing when run_phase starts it is listed as failed in
\* the metadata given to run_phase, with the 'script not found' error,
\* and does not count as a success
NotFoundRecorded(p, m) ==
    /\ p \in Failed(m)
    /\ p \notin Completed(m)
    /\ << "notfound", p >> \in Range(m.errors)

MissingScriptHandling ==
    /\ \A p \in skipped \cup (PhaseNames \ Range(phases_to_run)) :
         /\ \A m \in AllMetadata : p \notin Completed(m) \cup Failed(m)
         /\ \A r \in BOOLEAN : << p, r >> \notin returned
    /\ \A p \in SeqPhases :
         << p, "notfound" >> \in ended =>
           /\ NotFoundRecorded(p, metadata)
           /\ returned \cap { << p, TRUE >>, << p, FALSE >> }
                = { << p, FALSE >> }
    /\ \A i \in TaskIdx :
         (tasks[i].state = "done" /\ tasks[i].outcome = "notfound") =>
           NotFoundRecorded(tasks[i].phase, tasks[i].meta)

\* C10 witness: a run with one script absent and another missing at launch
MissingScriptHandlingSeen ==
    /\ pc = "done"
    /\ skipped # {}
    /\ \E p \in PhaseNames : << p, "notfound" >> \in ended

\* the calls of the pool whose outcome main() has counted
Collected == { i \in TaskIdx : tasks[i].state = "collected" }

\* C11: a requested report, deep or final phase found without a script is
\* never launched, is in no list of any metadata and in no result; the two
\* counts count exactly the phases that ran; and at the end of the run every
\* requested phase that was not skipped has run and been counted
TailSkipIsSilent ==
    /\ \A p \in skipped \cap TailPhases :
         /\ p \notin launched
         /\ \A m \in AllMetadata : p \notin Completed(m) \cup Failed(m)
         /\ \A r \in BOOLEAN : << p, r >> \notin returned
    /\ success_count + failed_count
         = Cardinality(EndedPhases \cap SeqPhases) + Cardinality(Collected)
    /\ pc = "done" =>
         \A p \in Range(phases_to_run) \ skipped :
           /\ p \in launched
           /\ \E r \in BOOLEAN : << p, r >> \in returned

\* C11 witness: a run that ended with deep skipped and another phase
\* counted as a success
TailSkipIsSilentSeen ==
    /\ pc = "done"
    /\ "deep" \in skipped
    /\ success_count = 1

\* what provider i of the running chain returns when it is invoked
Would(i) == Invoke(chain, chain[i], env, answers[chain[i]], limit)

\* C12: the providers invoked are the first ones of the chain, in the order
\* of the chain and once each; a provider is invoked only after every one
\* before it failed; the function returns the results and the name of the
\* first provider of the chain that succeeds, and invokes none after it
OrderedFallback ==
    /\ chain \in { << >>, TickerChain, PeersChain }
    /\ Len(invoked) <= Len(chain)
    /\ \A i \in 1..Len(invoked) :
         /\ invoked[i] = chain[i]
         /\ \A j \in 1..(i - 1) : ~Succeeded(Would(j))
    /\ pc = "resolved" =>
         IF \E i \in 1..Len(chain) : Succeeded(Would(i))
         THEN LET first == Len(invoked)
              IN  /\ Succeeded(Would(first))
                  /\ resolved.results = Would(first).results
                  /\ resolved.provider_used = ProviderUsed(chain, chain[first])
         ELSE resolved.provider_used = "none"

\* C12 witness: the ticker lookup returned Finnhub's results after yfinance
\* failed, OpenBB holding a different successful answer it was never asked
OrderedFallbackSeen ==
    /\ pc = "resolved"
    /\ invoked = << "yfinance", "finnhub" >>
    /\ resolved.provider_used = "Finnhub"
    /\ Succeeded(Would(3))
    /\ Would(3).results # resolved.results

\* the keys of the all_errors dict
ErrorKeys == { e[1] : e \in all_errors }

\* C13: when a fallback function returns the provider name 'none', its
\* result is empty and all_errors holds exactly one entry for every
\* provider of the chain, each an error string and none of them None, the
\* entry of a provider whose credential is unset saying so
AllFailedErrorsComplete ==
    (pc = "resolved" /\ resolved.provider_used = "none") =>
        /\ resolved.results = 0
        /\ ErrorKeys = Range(chain)
        /\ Cardinality(all_errors) = Len(chain)
        /\ \A e \in all_errors : e[2] # "None"
        /\ "FINNHUB_API_KEY" \notin env =>
             << "finnhub", "FINNHUB_API_KEY not set in environment" >>
               \in all_errors
        /\ "OPENBB_PAT" \notin env =>
             << "openbb", "OPENBB_PAT not set in environment" >>
               \in all_errors

\* C14: when main() has printed the summary, the lists it printed from its
\* metadata name every phase whose child exited 0 as completed and every
\* phase whose child ended otherwise as failed, with the error recorded
\* for it, whichever stage ran the phase
SummaryListsEveryPhase ==
    pc = "done" =>
        \A e \in ended :
          IF e[2] = "exit0"
          THEN e[1] \in Completed(metadata)
          ELSE /\ e[1] \in Failed(metadata)
               /\ ErrorMsg(e[1], e[2]) \in Range(metadata.errors)

\* the positions of main() after the parallel stage
AfterParallel ==
    { "report", "report_running", "deep", "deep_running", "final",
      "final_running", "summary", "done" }

\* the outcomes counted for the phases run by main() itself
SeqOutcomes == Cardinality(EndedPhases \cap SeqPhases)

\* the counts of the parallel stage: one outcome for each call collected,
\* and all of them collected once the stage has ended
ParallelCounted ==
    /\ pc \in AfterParallel =>
         /\ \A i \in TaskIdx : tasks[i].state = "collected"
         /\ success_count + failed_count - SeqOutcomes = Len(tasks)
    /\ pc = "collect" =>
         /\ success_count + failed_count - SeqOutcomes
              = Cardinality(Collected)
         /\ \E i \in TaskIdx : tasks[i].state # "collected"

\* C15: once the parallel stage has ended every submitted call has yielded
\* its one outcome and the two counts have grown, since the technical
\* phase, by the number of calls submitted; a call whose worker raised is
\* one failure; and the stage, once entered, always ends
ParallelStageYields ==
    /\ []ParallelCounted
    /\ (pc = "collect") ~> (pc = "report")

\* C15 witness: the stage ended with two calls submitted, one counted as a
\* success and one as a failure
ParallelStageYieldsSeen ==
    /\ pc = "report"
    /\ Len(tasks) = 2
    /\ success_count = 1
    /\ failed_count = 1
    /\ "technical" \notin launched

\* the entry appended last to a list
Last(q) == q[Len(q)]

\* C16: run_phase returns True and appends the phase to phases_completed
\* when, and only when, the child exited with code 0; for any other return
\* code it returns False and appends the phase to phases_failed and to
\* errors a message made of that return code and the child's stderr
ExitZeroIsSuccess ==
    \A p \in launched :
      (pc = "run_phase" \/ p # phases_to_run[1]) =>
        /\ << p, TRUE >> \in returned <=> p \in Completed(metadata)
        /\ << p, FALSE >> \in returned <=> p \in Failed(metadata)
        /\ Count(p, metadata) = 1
        /\ p = phases_to_run[1] =>
             /\ << p, TRUE >> \in returned
                  <=> (result.raised = "none" /\ result.returncode = 0)
             /\ Len(metadata.errors) = Len(metadata.phases_failed)
             /\ (result.raised = "none" /\ result.returncode # 0) =>
                  /\ Last(metadata.phases_failed) = p
                  /\ Last(metadata.errors).kind = "failed with return code"
                  /\ Last(metadata.errors).phase = p
                  /\ Last(metadata.errors).returncode = result.returncode
                  /\ Last(metadata.errors).stderr = result.stderr
                  /\ file.content = metadata

\* C16 witness: technical alone exited 1 with stderr 'rate limited'
ExitZeroIsSuccessSeen ==
    /\ pc = "run_phase"
    /\ phases_to_run = << "technical" >>
    /\ result = [ raised |-> "none", returncode |-> 1,
                  stderr |-> "rate limited" ]
    /\ metadata.phases_failed = << "technical" >>
    /\ metadata.phases_completed = << >>
    /\ << "technical", FALSE >> \in returned

\* the run has ended, by the summary or by an abort
Ended == pc = "done" \/ pc \in Aborts

\* every key the requested phases need is set
CredentialsPresent == validate_api_keys(phases_to_run, env) = {}

\* no script was found absent, and no child ended otherwise than by exit 0
AllExitZero ==
    /\ skipped = {}
    /\ faults = 0
    /\ \A e \in ended : e[2] = "exit0"

\* C17 as stated: a run whose requested phases have their credentials,
\* whose scripts all exist and exit 0, ends with the summary counting as
\* many completed phases as were requested, none failed, and exit code 0
AllSucceed ==
    ( /\ Ended
      /\ invalid_phases = << >>
      /\ CredentialsPresent
      /\ AllExitZero )
    => /\ pc = "done"
       /\ success_count = Cardinality(Range(phases_to_run))
       /\ failed_count = 0
       /\ exit_code = 0

\* C17 amended: the same of a run whose symbol passed the ticker validation
\* and whose list names no phase twice; with these credentials and scripts
\* the ticker validation is the only step that can abort the run
AllSucceedValidTicker ==
    ( /\ Ended
      /\ invalid_phases = << >>
      /\ CredentialsPresent
      /\ AllExitZero )
    => /\ pc # "done" => pc = "abort_ticker"
       /\ (pc = "done" /\ NoRepeatedPhase) =>
            /\ success_count = Len(phases_to_run)
            /\ failed_count = 0
            /\ exit_code = 0

\* C17 witness: 'technical,fundamental' gave 2 completed, 0 failed, exit 0
AllSucceedValidTickerSeen ==
    /\ pc = "done"
    /\ phases_to_run = << "technical", "fundamental" >>
    /\ AllExitZero
    /\ success_count = 2
    /\ failed_count = 0
    /\ exit_code = 0

\* the directories left by runs of another symbol
OfOtherSymbols ==
    { DirName(s, d) : s \in { LongerSymbol, OtherSymbol }, d \in Dates }

\* C18: cleanup_old_directories creates nothing and deletes only
\* directories whose name matches '<symbol>_*', never the directory of the
\* current run, never a directory of another symbol, and nothing at all
\* when cleanup is suppressed
CleanupScoped ==
    [][ pc = "cleanup" =>
          /\ dirs' \subseteq dirs
          /\ \A d \in dirs \ dirs' : GlobMatch(d, Symbol) /\ d # CurDir
          /\ \A d \in dirs \cap OfOtherSymbols : d \in dirs'
          /\ skip_cleanup => dirs' = dirs ]_vars

\* the workers inside 'with metadata_lock:'
InSection == { i \in TaskIdx : tasks[i].state = "locked" }

\* C19: at most one worker is inside the append-and-save section, and it is
\* the holder of the lock, whatever outcome it is recording
OneWorkerInSection ==
    /\ Cardinality(InSection) <= 1
    /\ \A i \in InSection : lock = i /\ tasks[i].outcome \in Outcomes
    /\ lock # 0 => lock \in InSection

\* C19 witness: a worker records a timeout while another, whose child has
\* ended too, waits for the lock
OneWorkerInSectionSeen ==
    \E i, j \in TaskIdx :
      /\ tasks[i].state = "locked"
      /\ tasks[i].outcome = "timeout"
      /\ tasks[j].state = "waitlock"

\* no worker is between the end of its child and the end of its section
NoneRecording ==
    \A i \in TaskIdx : tasks[i].state \notin { "waitlock", "locked" }

\* C20: whenever no phase is in the middle of recording, 00_metadata.json
\* lists exactly the phases whose child has ended so far, those that exited
\* 0 as completed and the others as failed
FileReflectsOutcomes ==
    (file.exists /\ NoneRecording) =>
        /\ Completed(file.content)
             = { e[1] : e \in { x \in ended : x[2] = "exit0" } }
        /\ Failed(file.content)
             = { e[1] : e \in { x \in ended : x[2] # "exit0" } }

\* the positions of main() past the block of a sequential phase
Past(p) ==
    CASE p = "technical" -> { "parallel", "collect" } \cup AfterParallel
      [] p = "report" ->
           { "deep", "deep_running", "final", "final_running", "summary",
             "done" }
      [] p = "deep" -> { "final", "final_running", "summary", "done" }
      [] p = "final" -> { "summary", "done" }

\* C21: every failure recorded names a phase whose own child failed, with
\* the error of that child; and whatever failed before, once main() is past
\* a block the requested phase of that block is launched unless its script
\* was found absent, and past the parallel stage so is every data phase
FailureIsLocal ==
    /\ \A m \in AllMetadata :
         /\ Len(m.errors) = Len(m.phases_failed)
         /\ \A i \in 1..Len(m.phases_failed) :
              \E e \in ended :
                /\ e[1] = m.phases_failed[i]
                /\ e[2] # "exit0"
                /\ m.errors[i] = ErrorMsg(e[1], e[2])
    /\ \A p \in SeqPhases \cap Range(phases_to_run) :
         pc \in Past(p) => p \in launched \cup skipped
    /\ pc \in AfterParallel =>
         Range(other_data_phases) \subseteq launched \cup skipped

\* C21 witness: the run reached the summary with report launched after
\* the technical phase had failed
FailureIsLocalSeen ==
    /\ pc = "done"
    /\ \E e \in ended : e[1] = "technical" /\ e[2] # "exit0"
    /\ "report" \in launched
    /\ "technical" \in Failed(metadata)
    /\ "report" \notin Failed(metadata)

\* how many child processes of phase p the run has launched so far
Launches(p) ==
    (IF p \in SeqPhases \cap launched THEN 1 ELSE 0)
      + Cardinality({ i \in TaskIdx :
                        tasks[i].phase = p /\ tasks[i].state # "queued" })

\* the failures of kind k that metadata m records for phase p
Recorded(m, p, k) ==
    { i \in 1..Len(m.phases_failed) :
        m.phases_failed[i] = p /\ m.errors[i] = ErrorMsg(p, k) }

\* C22: a child that timed out gives a False result and a failure recorded
\* with the 'timed out' error, which is neither the non-zero-exit nor the
\* script-not-found error; and once a phase has timed out no further child
\* of that phase is launched in the run
TimeoutIsFinal ==
    /\ [](\A p \in PhaseNames :
            /\ ErrorMsg(p, "timeout") # ErrorMsg(p, "nonzero")
            /\ ErrorMsg(p, "timeout") # ErrorMsg(p, "notfound")
            /\ (<< p, "timeout" >> \in ended /\ pc = "done") =>
                 << p, FALSE >> \in returned)
    /\ [][ \A p \in PhaseNames :
             << p, "timeout" >> \in ended => Launches(p)' = Launches(p) ]_vars

\* an unexpected exception has struck a phase: in run_phase, or in the
\* worker around it
Struck ==
    \/ \E e \in ended : e[2] = "unexpected"
    \/ \E i \in TaskIdx : tasks[i].state = "raised"

\* C23: an unexpected exception in run_phase leaves a failure record for
\* the phase and a False result, the exception of a worker adds one to
\* failed_count and nothing to success_count, and in both cases the run
\* goes on to the summary
UnexpectedIsFailure ==
    /\ [](\A p \in SeqPhases :
            (<< p, "unexpected" >> \in ended) =>
              /\ Recorded(metadata, p, "unexpected") # {}
              /\ << p, FALSE >> \in returned)
    /\ [](\A i \in TaskIdx :
            (tasks[i].state = "done" /\ tasks[i].outcome = "unexpected") =>
              Recorded(tasks[i].meta, tasks[i].phase, "unexpected") # {})
    /\ [][ \A i \in TaskIdx :
             (tasks[i].state = "raised" /\ tasks'[i].state # "raised") =>
               /\ failed_count' = failed_count + 1
               /\ success_count' = success_count
               /\ << tasks[i].phase, FALSE >> \in returned' ]_vars
    /\ Struck ~> (pc = "done")

\* C23 witness: the summary was reached after the only worker of the pool
\* raised, its phase counted as the one failure of the run
UnexpectedIsFailureSeen ==
    /\ pc = "done"
    /\ Len(tasks) = 1
    /\ tasks[1].phase \notin EndedPhases
    /\ failed_count = 1
    /\ << tasks[1].phase, FALSE >> \in returned

\* C24: an attempt that gave an empty collection is never the one the
\* resolver returns from, even with the success flag set and no error: the
\* resolver goes on to the next provider or, the chain exhausted, returns
\* 'none'; a provider name other than 'none' always comes with results
EmptyIsFailure ==
    /\ \A i \in 1..Len(invoked) :
         Would(i).results = 0 =>
           \/ i < Len(invoked)
           \/ pc = "try_provider" /\ attempt = i + 1
           \/ /\ i = Len(chain)
              /\ pc = "resolved"
              /\ resolved.provider_used = "none"
    /\ pc = "resolved" =>
         (resolved.provider_used # "none" => resolved.results > 0)

\* C24 witness: Finnhub reported success with no entry and no error, and
\* the ticker lookup went on to OpenBB and returned its results
EmptyIsFailureSeen ==
    /\ pc = "resolved"
    /\ chain = TickerChain
    /\ Would(2) = Success(0)
    /\ invoked = TickerChain
    /\ resolved.provider_used = ProviderUsed(TickerChain, "openbb")
    /\ resolved.results > 0

\* every provider of the lookup failed by raising, as on a network outage
NetworkOutage ==
    /\ chain = TickerChain
    /\ \A p \in Providers : answers[p].raises

\* C25: when the lookup could not confirm the symbol because its child
\* timed out or because all its providers failed with network errors, the
\* orchestrator does not abort: it goes on to set up the work directory
NetworkFailureContinues ==
    ((NetworkOutage \/ lookup = "timeout") /\ pc \in { "setup", "abort_ticker" })
      => pc = "setup"

\* the attempts made that did not give a text
FailedCalls == { i \in 1..Len(query.calls) : query.calls[i] # "text" }

\* the waits made are the back-off of the call: the i-th is
\* multiplier^(i-1) * delay
BackoffWaits ==
    \A i \in 1..Len(query.waits) :
       query.waits[i] = Pow(query.multiplier, i - 1) * query.delay

\* C26: query_perplexity calls the API at most max_retries times and no
\* more after a call gave a text, which it returns; it sleeps
\* multiplier^attempt * delay after each failed call but the last one;
\* it returns None after max_retries failed calls, and without any call
\* when the API key is missing; every call of it returns.
QueryRetries ==
    /\ [](/\ Len(query.calls) <= query.max_retries
          /\ \A i \in 1..Len(query.calls) - 1 : i \in FailedCalls
          /\ BackoffWaits
          /\ pc = "query_sleep" => Len(query.waits) = Len(query.calls) - 1
          /\ pc = "query_loop" => Len(query.waits) = Len(query.calls)
          /\ pc = "query_done" =>
               /\ query.value \in { "text", "None" }
               /\ query.value = "text" <=>
                    /\ query.calls # << >>
                    /\ Last(query.calls) = "text"
               /\ query.calls # << >> =>
                    Len(query.waits) = Len(query.calls) - 1
               /\ (query.value = "None" /\ "PERPLEXITY_API_KEY" \in env) =>
                    /\ Len(query.calls) = query.max_retries
                    /\ Cardinality(FailedCalls) = query.max_retries
               /\ "PERPLEXITY_API_KEY" \notin env =>
                    /\ query.calls = << >>
                    /\ query.waits = << >>
                    /\ query.value = "None")
    /\ <>(pc = "query_done")

\* C26 witness: None returned after three failed calls, the second wait
\* twice the first
QueryRetriesSeen ==
    /\ pc = "query_done"
    /\ query.value = "None"
    /\ query.max_retries = 3
    /\ query.calls = << "raise", "null", "raise" >>
    /\ query.waits = << 2, 4 >>

\* the workers whose child process of phase p is running
Children(p) ==
    { i \in TaskIdx : tasks[i].phase = p /\ tasks[i].state = "running" }

\* C27: no phase has more than one child process launched in a run, however
\* often --phases names it, so no two children of one phase run at once
LaunchedOnce ==
    \A p \in PhaseNames :
       /\ Launches(p) <= 1
       /\ Cardinality(Children(p)) <= 1

\* C28: a run that aborts before any phase (invalid symbol, invalid phase
\* name, missing credential) still has the directory an earlier run of the
\* symbol left
AbortKeepsPriorDirectories == pc \in Aborts => OldDir \in dirs

\* the errors of metadata m are paired with its failed phases
Paired(m) ==
    /\ DOMAIN m.errors = DOMAIN m.phases_failed
    /\ \A i \in DOMAIN m.errors :
         \E k \in Outcomes \ { "exit0" } :
            m.errors[i] = ErrorMsg(m.phases_failed[i], k)

\* what one recording does to a metadata dict, m before and n after: a
\* success extends phases_completed only, a failure extends phases_failed
\* and errors by one entry each
OneRecord(m, n) ==
    /\ Len(n.phases_completed) > Len(m.phases_completed) =>
         /\ n.errors = m.errors
         /\ n.phases_failed = m.phases_failed
    /\ Len(n.phases_failed) > Len(m.phases_failed) =>
         /\ n.phases_completed = m.phases_completed
         /\ SubSeq(n.phases_failed, 1, Len(m.phases_failed))
              = m.phases_failed
         /\ SubSeq(n.errors, 1, Len(m.errors)) = m.errors
         /\ Len(n.phases_failed) = Len(m.phases_failed) + 1

\* C29: in the parent's metadata and in every worker's, the i-th error is
\* the error of the i-th failed phase and there are no other errors; a
\* recorded success leaves errors and phases_failed as they were
ErrorsFollowFailures ==
    /\ [](Paired(metadata) /\ \A i \in TaskIdx : Paired(tasks[i].meta))
    /\ [][ /\ OneRecord(metadata, metadata')
           /\ \A i \in DOMAIN tasks \cap DOMAIN tasks' :
                OneRecord(tasks[i].meta, tasks'[i].meta) ]_vars

\* C29 witness: the parent's metadata holds two failures of different
\* kinds, each with its own error
ErrorsFollowFailuresSeen ==
    /\ pc = "done"
    /\ metadata.phases_failed = << "technical", "report" >>
    /\ metadata.errors
         = << ErrorMsg("technical", "nonzero"), ErrorMsg("report", "timeout") >>

\* the tasks of the running script
ScriptTasks == 1..total_count(script.name)

\* C30: a phase script exits 1 exactly when every task of it failed and 0
\* when at least one succeeded, and run_phase records it as completed or
\* failed accordingly, so technical is completed also when its peer-list
\* task failed; when no peer provider gave peers, the peer-list task that
\* wrote its file wrote an empty list and is counted as a success
PartialSuccessExitsZero ==
    /\ pc \in { "script_exit", "script_recorded" } =>
         /\ script.success_count + Cardinality(script.failed)
              = total_count(script.name)
         /\ script.exit = 1 <=> script.failed = ScriptTasks
         /\ script.exit = 0 <=> script.failed # ScriptTasks
    /\ pc = "script_recorded" =>
         /\ script.exit = 0 <=> metadata.phases_completed = << script.name >>
         /\ script.exit = 1 <=> metadata.phases_failed = << script.name >>
    /\ (script.name = "technical" /\ script.task > 3
          /\ resolved.provider_used = "none") =>
         /\ 3 \notin script.failed <=> script.peers_file = 0
         /\ script.peers_file \in { -1, 0 }

\* C30 witness: technical is recorded as completed after its first two
\* tasks failed and no peer provider gave peers: the one success is the
\* empty peer list
PartialSuccessExitsZeroSeen ==
    /\ pc = "script_recorded"
    /\ script.name = "technical"
    /\ script.failed = { 1, 2 }
    /\ resolved.provider_used = "none"
    /\ script.peers_file = 0
    /\ script.exit = 0
    /\ metadata.phases_completed = << "technical" >>

====
